---------------------------- MODULE Spec2Model ----------------------------
(***************************************************************************)
(* Model of src/compiler.py: CppSwigCompiler.compile, the build pipeline   *)
(* that stages a header, a copy of the source and a SWIG interface file in *)
(* an output folder, changes the working directory to that folder, runs    *)
(* SWIG and the C++ compiler backend there, and returns the module path.   *)
(*                                                                         *)
(* The file system is a function from paths to file contents plus a set of *)
(* existing directories.  A path is a record                               *)
(*     [dir, pre, stem, post, ext]   for   dir/<pre><stem><post><ext>      *)
(* so that '_' + name, name + '_wrap.cxx' and with_suffix can be computed. *)
(* Each build b has a program position pc[b] and the local variables of    *)
(* compile().  The working directory cwd is process-wide.                  *)
(***************************************************************************)
EXTENDS Integers, Sequences, FiniteSets, TLC

VARIABLES
    cwd,            \* process-wide current working directory
    cwd0,           \* working directory before the build call(s) began
    dirs,           \* existing directories
    fs,             \* existing files: path -> content
    debug,          \* Python's __debug__: FALSE when run with -O (assert removed)
    calls,          \* external tool invocations made so far, in order
    pc,             \* per build: position in compile()
    path,           \* per build: argument `path`
    arg_folder,     \* per build: argument `output_folder` ("None" when omitted)
    src_state,      \* per build: the source on disk is "ok", "malformed" or "missing"
    output_folder,  \* per build: local `output_folder`
    header_code,    \* per build: local `header_code`
    saved,          \* per build: directory remembered by temporarily_change_dir
    swig_rc,        \* per build: exit status of SWIG (-1: not run)
    cc_result,      \* per build: result['results'] of the compiler backend
    err,            \* per build: exception that left compile()
    ret,            \* per build: value returned by compile()
    host,           \* platform.system() of the process
    ctor,           \* CppSwigCompiler(): "new", "ready" or "failed"
    cpp_compiler,   \* self.cpp_compiler
    ipc,            \* position in _create_swig_interface()
    ipath,          \* _create_swig_interface: argument `path`
    hdr_lines,      \* _create_swig_interface: header_code.splitlines()
    pos,            \* _create_swig_interface: lines the loop has taken
    include_directives,   \* _create_swig_interface: local list
    function_signatures,  \* _create_swig_interface: local list
    swig_interface,       \* _create_swig_interface: result
    ierr            \* _create_swig_interface: exception that left it

\* the process and the calls of compile()
buildvars == <<cwd, cwd0, dirs, fs, debug, calls, pc, path, arg_folder,
               src_state, output_folder, header_code, saved, swig_rc,
               cc_result, err, ret>>

\* the compiler object
hostvars == <<host, ctor, cpp_compiler>>

\* the call of _create_swig_interface()
ifacevars == <<ipc, ipath, hdr_lines, pos, include_directives,
               function_signatures, swig_interface, ierr>>

vars == <<cwd, cwd0, dirs, fs, debug, calls, pc, path, arg_folder, src_state,
          output_folder, header_code, saved, swig_rc, cc_result, err, ret,
          host, ctor, cpp_compiler, ipc, ipath, hdr_lines, pos,
          include_directives, function_signatures, swig_interface, ierr>>

-----------------------------------------------------------------------------
(* Bounds of the model. *)

MaxHeaderLines == 2

Builds == {1, 2}

HeaderLines == {"#include <vector>", "int add(int a, int b);"}

RECURSIVE SeqsUpTo(_)
SeqsUpTo(n) ==
    IF n = 0 THEN {<<>>}
    ELSE LET shorter == SeqsUpTo(n - 1)
         IN  shorter \cup {Append(s, l) : s \in {t \in shorter : Len(t) = n - 1},
                                          l \in HeaderLines}

HeaderTexts == SeqsUpTo(MaxHeaderLines)

None == "None"

SourceDir == "/src"
CallerDir == "/out"
StartDir == "/home"

TmpDir(b) == IF b = 1 THEN "/tmp/tmp1" ELSE "/tmp/tmp2"

-----------------------------------------------------------------------------
(* pathlib *)

NoPath == [dir |-> "", pre |-> "", stem |-> "", post |-> "", ext |-> ""]

MkPath(d, s, e) == [dir |-> d, pre |-> "", stem |-> s, post |-> "", ext |-> e]

\* Path.name: the final component, here the path with its directory dropped
name(p) == [p EXCEPT !.dir = "."]

\* folder.joinpath(name)
joinpath(folder, n) == [n EXCEPT !.dir = folder]

\* p.with_suffix(e)
with_suffix(p, e) == [p EXCEPT !.ext = e]

\* p.with_name('_' + p.name)
with_underscore(p) == [p EXCEPT !.pre = "_"]

\* folder.joinpath(p.with_suffix('').name + '_wrap.cxx')
wrap_name(p) == [name(p) EXCEPT !.post = "_wrap", !.ext = ".cxx"]

\* p.relative_to(folder), for p directly inside folder
relative_to(p, folder) == name(p)

-----------------------------------------------------------------------------
(* file contents *)

SourceFile(wellformed, header) ==
    [kind |-> "source", ok |-> wellformed, text |-> header,
     mod |-> NoPath, ref |-> NoPath]

HeaderFile(text) ==
    [kind |-> "header", ok |-> TRUE, text |-> text, mod |-> NoPath, ref |-> NoPath]

\* SWIG_INTERFACE_TEMPLATE_HPP.format(module_name=..., include_path=...)
InterfaceFile(module_name, include_path) ==
    [kind |-> "interface", ok |-> TRUE, text |-> <<>>,
     mod |-> module_name, ref |-> include_path]

WrapperFile == [kind |-> "wrapper", ok |-> TRUE, text |-> <<>>,
                mod |-> NoPath, ref |-> NoPath]

SharedObject == [kind |-> "so", ok |-> TRUE, text |-> <<>>,
                 mod |-> NoPath, ref |-> NoPath]

Put(f, p, c) == [q \in DOMAIN f \cup {p} |-> IF q = p THEN c ELSE f[q]]

EmptyFs == [q \in {} |-> HeaderFile(<<>>)]

-----------------------------------------------------------------------------
(* exceptions *)

NoErr == [type |-> "none", line |-> 0, text |-> "",
          paths |-> {}, headers |-> {}, folders |-> {}]

\* an exception of the given type raised at the given line of compiler.py,
\* whose message mentions the given paths
Exc(type, line, paths) ==
    [type |-> type, line |-> line, text |-> "",
     paths |-> paths, headers |-> {}, folders |-> {}]

\* variant: the message leaves out the folder
SwigFailure_NoFolder(p, hpp, header, folder) ==
    [type |-> "RuntimeError", line |-> 189,
     text |-> "Failed to create SWIG interface",
     paths |-> {p, hpp}, headers |-> {header}, folders |-> {}]

\* the message built at lines 189-191:
\* 'Failed to create SWIG interface for "{path}":\nThe header "{hpp_path}" is:
\*  """{header_code}"""\nExamine folder "{output_folder}" for details'
SwigFailure(p, hpp, header, folder) ==
    [type |-> "RuntimeError", line |-> 189,
     text |-> "Failed to create SWIG interface",
     paths |-> {p, hpp}, headers |-> {header}, folders |-> {folder}]

-----------------------------------------------------------------------------
(* collaborators of the header pipeline (transpyle.general) *)

\* CodeReader.read_file: fails with an IOError kind when the file is missing
read_file_fails(f, p) == p \notin DOMAIN f

\* Parser.parse: fails with a SyntaxError kind on malformed source.  A file
\* that holds anything but well-formed source does not parse.
parse_fails(f, p) == ~(f[p].kind = "source" /\ f[p].ok)

\* Unparser(headers=True).unparse(generalize(tree)): the header-only text
unparse(f, p) == f[p].text

\* variant: a parse error is swallowed and whatever can be rendered is returned
create_header_file_swallow(f, p) ==
    IF read_file_fails(f, p)
      THEN [raised |-> TRUE, exc |-> Exc("IOError", 110, {p}), text |-> <<>>]
    ELSE [raised |-> FALSE, exc |-> NoErr, text |-> unparse(f, p)]

\* create_header_file(path): the header text, or the collaborator's
\* exception, which passes through unchanged
create_header_file(f, p) ==
    IF read_file_fails(f, p)
      THEN [raised |-> TRUE, exc |-> Exc("IOError", 110, {p}), text |-> <<>>]
    ELSE IF parse_fails(f, p)
      THEN [raised |-> TRUE, exc |-> Exc("SyntaxError", 111, {p}), text |-> <<>>]
    ELSE [raised |-> FALSE, exc |-> NoErr, text |-> unparse(f, p)]

\* create_swig_interface(path): the header-reference template, filled in
create_swig_interface(p) == InterfaceFile(name(with_suffix(p, "")), p)

-----------------------------------------------------------------------------
(* local paths of compile() *)

hpp_path(b) == with_suffix(joinpath(output_folder[b], name(path[b])), ".hpp")

cpp_path(b) == joinpath(output_folder[b], name(path[b]))

swig_interface_path(b) ==
    joinpath(output_folder[b], name(with_suffix(path[b], ".i")))

wrapper_path(b) == joinpath(output_folder[b], wrap_name(path[b]))

so_path(b) == with_suffix(with_underscore(cpp_path(b)), ".so")

\* variant: the path of the shared library is returned
module_path_so(b) == so_path(b)

module_path(b) == with_suffix(cpp_path(b), ".py")

ExitStatuses == {0, 1}

NoResult == [compile |-> -1, link |-> -1]

\* no backend: the call is not one of the compiler backend
NoBackend == "none"

SwigCall(b) ==
    [build |-> b, tool |-> "swig", backend |-> NoBackend, cwd |-> cwd,
     flags |-> <<"-I", "-python", "-c++">>,
     inputs |-> <<swig_interface_path(b)>>, output |-> NoPath]

CompilerCall(b) ==
    [build |-> b, tool |-> "c++", backend |-> cpp_compiler, cwd |-> cwd,
     flags |-> <<>>,
     inputs |-> <<cpp_path(b), wrapper_path(b)>>, output |-> so_path(b)]

-----------------------------------------------------------------------------
(* external tools *)

\* run_tool (transpyle.general): raises RuntimeError when the child process
\* exits with a status other than 0
run_tool_raises(rc) == rc # 0

\* the files after a SWIG run that exited 0: the wrapper is written at its
\* fixed place in the folder of the interface file, unless SWIG wrote none
swig_output(f, wrapper, made) == IF made THEN Put(f, wrapper, WrapperFile) ELSE f

\* the files after the backend (compiler_interface) ran with compile status
\* c and link status l: the shared object exists when both are 0
backend_output(f, out, c, l) ==
    IF c = 0 /\ l = 0 THEN Put(f, out, SharedObject) ELSE f

-----------------------------------------------------------------------------
(* the steps of compile() *)

\* an exception leaves compile() from outside the `with` block
Raise(b, e) ==
    /\ pc' = [pc EXCEPT ![b] = "failed"]
    /\ err' = [err EXCEPT ![b] = e]

\* an exception is raised inside the `with` block: the context manager's
\* exit still has to run
RaiseInside(b, e) ==
    /\ pc' = [pc EXCEPT ![b] = "exit_fail"]
    /\ err' = [err EXCEPT ![b] = e]

\* variant: the name of the removed temporary directory is used as it is,
\* without mkdir()
AcquireDir_NoMkdir(b) ==
    /\ pc[b] = "start"
    /\ output_folder' = [output_folder EXCEPT ![b] =
                            IF arg_folder[b] = None THEN TmpDir(b)
                                                    ELSE arg_folder[b]]
    /\ pc' = [pc EXCEPT ![b] = "header"]
    /\ UNCHANGED <<hostvars, ifacevars>>
    /\ UNCHANGED <<cwd, cwd0, dirs, fs, debug, calls, path, arg_folder,
                   src_state, header_code, saved, swig_rc, cc_result, err, ret>>

\* lines 169-172: without an output folder, TemporaryDirectory() makes a
\* fresh directory and removes it when its `with` ends; mkdir() then makes a
\* directory of that name again
AcquireDir(b) ==
    /\ pc[b] = "start"
    /\ IF arg_folder[b] = None
         THEN /\ output_folder' = [output_folder EXCEPT ![b] = TmpDir(b)]
              /\ dirs' = dirs \cup {TmpDir(b)}
         ELSE /\ output_folder' = [output_folder EXCEPT ![b] = arg_folder[b]]
              /\ dirs' = dirs
    /\ pc' = [pc EXCEPT ![b] = "header"]
    /\ UNCHANGED <<hostvars, ifacevars>>
    /\ UNCHANGED <<cwd, cwd0, fs, debug, calls, path, arg_folder, src_state,
                   header_code, saved, swig_rc, cc_result, err, ret>>

\* line 173
CreateHeader(b) ==
    /\ pc[b] = "header"
    /\ LET r == create_header_file(fs, path[b])
       IN  IF r.raised
             THEN /\ Raise(b, r.exc)
                  /\ UNCHANGED header_code
             ELSE /\ header_code' = [header_code EXCEPT ![b] = r.text]
                  /\ pc' = [pc EXCEPT ![b] = "write_hpp"]
                  /\ UNCHANGED err
    /\ UNCHANGED <<hostvars, ifacevars>>
    /\ UNCHANGED <<cwd, cwd0, dirs, fs, debug, calls, path, arg_folder,
                   src_state, output_folder, saved, swig_rc, cc_result, ret>>

\* lines 174-176: open(hpp_path, 'w') and write; the open fails when the
\* folder does not exist or the environment refuses it
WriteHeader(b) ==
    /\ pc[b] = "write_hpp"
    /\ \E io_ok \in BOOLEAN :
         IF output_folder[b] \in dirs /\ io_ok
           THEN /\ fs' = Put(fs, hpp_path(b), HeaderFile(header_code[b]))
                /\ pc' = [pc EXCEPT ![b] = "copy"]
                /\ UNCHANGED err
           ELSE /\ Raise(b, Exc("OSError", 175, {hpp_path(b)}))
                /\ UNCHANGED fs
    /\ UNCHANGED <<hostvars, ifacevars>>
    /\ UNCHANGED <<cwd, cwd0, dirs, debug, calls, path, arg_folder, src_state,
                   output_folder, header_code, saved, swig_rc, cc_result, ret>>

\* lines 177-179: shutil.copy2(path, cpp_path); it raises SameFileError (an
\* OSError) when both name the same file
CopySource(b) ==
    /\ pc[b] = "copy"
    /\ \E io_ok \in BOOLEAN :
         IF path[b] \in DOMAIN fs /\ path[b] # cpp_path(b) /\ io_ok
           THEN /\ fs' = Put(fs, cpp_path(b), fs[path[b]])
                /\ pc' = [pc EXCEPT ![b] = "write_i"]
                /\ UNCHANGED err
           ELSE /\ Raise(b, Exc("OSError", 179, {path[b], cpp_path(b)}))
                /\ UNCHANGED fs
    /\ UNCHANGED <<hostvars, ifacevars>>
    /\ UNCHANGED <<cwd, cwd0, dirs, debug, calls, path, arg_folder, src_state,
                   output_folder, header_code, saved, swig_rc, cc_result, ret>>

\* lines 177, 180-182: the interface made at line 177 from the header's
\* folder-relative path is written to <folder>/<stem>.i
WriteInterface(b) ==
    /\ pc[b] = "write_i"
    /\ \E io_ok \in BOOLEAN :
         IF io_ok
           THEN /\ fs' = Put(fs, swig_interface_path(b),
                             create_swig_interface(
                                 relative_to(hpp_path(b), output_folder[b])))
                /\ pc' = [pc EXCEPT ![b] = "enter"]
                /\ UNCHANGED err
           ELSE /\ Raise(b, Exc("OSError", 181, {swig_interface_path(b)}))
                /\ UNCHANGED fs
    /\ UNCHANGED <<hostvars, ifacevars>>
    /\ UNCHANGED <<cwd, cwd0, dirs, debug, calls, path, arg_folder, src_state,
                   output_folder, header_code, saved, swig_rc, cc_result, ret>>

-----------------------------------------------------------------------------
(* the `with temporarily_change_dir(output_folder):` block, lines 185-196 *)

\* temporarily_change_dir (transpyle.general), entering: the directory in
\* force is remembered and the process changes to the given one
chdir_enter(b, folder) ==
    /\ saved' = [saved EXCEPT ![b] = cwd]
    /\ cwd' = folder

\* temporarily_change_dir, leaving (normally or by an exception): the
\* process changes back to the remembered directory
chdir_exit(b) == cwd' = saved[b]

\* variant: the block is entered without changing the directory
EnterDir_NoChdir(b) ==
    /\ pc[b] = "enter"
    /\ saved' = [saved EXCEPT ![b] = cwd]
    /\ pc' = [pc EXCEPT ![b] = "swig"]
    /\ UNCHANGED <<hostvars, ifacevars>>
    /\ UNCHANGED <<cwd, cwd0, dirs, fs, debug, calls, path, arg_folder,
                   src_state, output_folder, header_code, swig_rc, cc_result,
                   err, ret>>

\* line 185, entering the block
EnterDir(b) ==
    /\ pc[b] = "enter"
    /\ chdir_enter(b, output_folder[b])
    /\ pc' = [pc EXCEPT ![b] = "swig"]
    /\ UNCHANGED <<hostvars, ifacevars>>
    /\ UNCHANGED <<cwd0, dirs, fs, debug, calls, path, arg_folder, src_state,
                   output_folder, header_code, swig_rc, cc_result, err, ret>>

\* variant: run_tool's RuntimeError is not caught and leaves as it is
RunSwig_Reraise(b) ==
    /\ pc[b] = "swig"
    /\ calls' = Append(calls, SwigCall(b))
    /\ \E rc \in ExitStatuses, made \in BOOLEAN :
         /\ swig_rc' = [swig_rc EXCEPT ![b] = rc]
         /\ IF ~run_tool_raises(rc)
              THEN /\ fs' = swig_output(fs, wrapper_path(b), made)
                   /\ pc' = [pc EXCEPT ![b] = "cc"]
                   /\ UNCHANGED err
              ELSE /\ RaiseInside(b, Exc("RuntimeError", 187, {}))
                   /\ UNCHANGED fs
    /\ UNCHANGED <<hostvars, ifacevars>>
    /\ UNCHANGED <<cwd, cwd0, dirs, debug, path, arg_folder, src_state,
                   output_folder, header_code, saved, cc_result, ret>>

\* variant: the exit status of SWIG is not looked at
RunSwig_IgnoresStatus(b) ==
    /\ pc[b] = "swig"
    /\ calls' = Append(calls, SwigCall(b))
    /\ \E rc \in ExitStatuses, made \in BOOLEAN :
         /\ swig_rc' = [swig_rc EXCEPT ![b] = rc]
         /\ fs' = IF rc = 0 THEN swig_output(fs, wrapper_path(b), made) ELSE fs
         /\ pc' = [pc EXCEPT ![b] = "cc"]
         /\ UNCHANGED err
    /\ UNCHANGED <<hostvars, ifacevars>>
    /\ UNCHANGED <<cwd, cwd0, dirs, debug, path, arg_folder, src_state,
                   output_folder, header_code, saved, cc_result, ret>>

\* lines 186-191 and run_swig, lines 143-155: SWIG runs as a child process
\* in the working directory of that moment and exits with status rc; with
\* status 0 it has written the wrapper beside the interface file, or has
\* not.  run_tool raises RuntimeError on a status other than 0, which
\* compile() replaces by a RuntimeError of its own.
RunSwig(b) ==
    /\ pc[b] = "swig"
    /\ calls' = Append(calls, SwigCall(b))
    /\ \E rc \in ExitStatuses, made \in BOOLEAN :
         /\ swig_rc' = [swig_rc EXCEPT ![b] = rc]
         /\ IF ~run_tool_raises(rc)
              THEN /\ fs' = swig_output(fs, wrapper_path(b), made)
                   /\ pc' = [pc EXCEPT ![b] = "cc"]
                   /\ UNCHANGED err
              ELSE /\ RaiseInside(b, SwigFailure(path[b], hpp_path(b),
                                                 header_code[b], output_folder[b]))
                   /\ UNCHANGED fs
    /\ UNCHANGED <<hostvars, ifacevars>>
    /\ UNCHANGED <<cwd, cwd0, dirs, debug, path, arg_folder, src_state,
                   output_folder, header_code, saved, cc_result, ret>>

\* variant: the wrapper, an intermediate file, is removed after the backend ran
RunCompiler_RemovesWrapper(b) ==
    /\ pc[b] = "cc"
    /\ calls' = Append(calls, CompilerCall(b))
    /\ \E c \in ExitStatuses, l \in ExitStatuses :
         /\ cc_result' = [cc_result EXCEPT ![b] = [compile |-> c, link |-> l]]
         /\ LET linked == backend_output(fs, so_path(b), c, l)
            IN  fs' = [q \in DOMAIN linked \ {wrapper_path(b)} |-> linked[q]]
         /\ IF debug /\ c # 0
              THEN RaiseInside(b, Exc("AssertionError", 195, {}))
            ELSE IF debug /\ l # 0
              THEN RaiseInside(b, Exc("AssertionError", 196, {}))
            ELSE /\ pc' = [pc EXCEPT ![b] = "exit_ok"]
                 /\ UNCHANGED err
    /\ UNCHANGED <<hostvars, ifacevars>>
    /\ UNCHANGED <<cwd, cwd0, dirs, debug, path, arg_folder, src_state,
                   output_folder, header_code, saved, swig_rc, ret>>

\* variant: after a first non-zero status the backend is run once more
RunCompiler_RetryOnce(b) ==
    /\ pc[b] = "cc"
    /\ calls' = Append(calls, CompilerCall(b))
    /\ \E c \in ExitStatuses, l \in ExitStatuses :
         /\ cc_result' = [cc_result EXCEPT ![b] = [compile |-> c, link |-> l]]
         /\ fs' = backend_output(fs, so_path(b), c, l)
         /\ IF (c # 0 \/ l # 0) /\ cc_result[b] = NoResult
              THEN UNCHANGED <<pc, err>>
            ELSE IF debug /\ c # 0
              THEN RaiseInside(b, Exc("AssertionError", 195, {}))
            ELSE IF debug /\ l # 0
              THEN RaiseInside(b, Exc("AssertionError", 196, {}))
            ELSE /\ pc' = [pc EXCEPT ![b] = "exit_ok"]
                 /\ UNCHANGED err
    /\ UNCHANGED <<hostvars, ifacevars>>
    /\ UNCHANGED <<cwd, cwd0, dirs, debug, path, arg_folder, src_state,
                   output_folder, header_code, saved, swig_rc, ret>>

\* lines 192-196: the backend compiles and links [cpp_path, wrapper_path]
\* into _<stem>.so and reports the two exit statuses; the two assert
\* statements then check them, when assert statements are executed at all
RunCompiler(b) ==
    /\ pc[b] = "cc"
    /\ calls' = Append(calls, CompilerCall(b))
    /\ \E c \in ExitStatuses, l \in ExitStatuses :
         /\ cc_result' = [cc_result EXCEPT ![b] = [compile |-> c, link |-> l]]
         /\ fs' = backend_output(fs, so_path(b), c, l)
         /\ IF debug /\ c # 0
              THEN RaiseInside(b, Exc("AssertionError", 195, {}))
            ELSE IF debug /\ l # 0
              THEN RaiseInside(b, Exc("AssertionError", 196, {}))
            ELSE /\ pc' = [pc EXCEPT ![b] = "exit_ok"]
                 /\ UNCHANGED err
    /\ UNCHANGED <<hostvars, ifacevars>>
    /\ UNCHANGED <<cwd, cwd0, dirs, debug, path, arg_folder, src_state,
                   output_folder, header_code, saved, swig_rc, ret>>

\* variant: the directory is changed back on the normal way out only
LeaveDir_NormalExitOnly(b) ==
    /\ pc[b] \in {"exit_ok", "exit_fail"}
    /\ cwd' = IF pc[b] = "exit_ok" THEN saved[b] ELSE cwd
    /\ pc' = [pc EXCEPT ![b] = IF pc[b] = "exit_ok" THEN "ret" ELSE "failed"]
    /\ UNCHANGED <<hostvars, ifacevars>>
    /\ UNCHANGED <<cwd0, dirs, fs, debug, calls, path, arg_folder, src_state,
                   output_folder, header_code, saved, swig_rc, cc_result,
                   err, ret>>

\* line 185, leaving the block, on every way out of it
LeaveDir(b) ==
    /\ pc[b] \in {"exit_ok", "exit_fail"}
    /\ chdir_exit(b)
    /\ pc' = [pc EXCEPT ![b] = IF pc[b] = "exit_ok" THEN "ret" ELSE "failed"]
    /\ UNCHANGED <<hostvars, ifacevars>>
    /\ UNCHANGED <<cwd0, dirs, fs, debug, calls, path, arg_folder, src_state,
                   output_folder, header_code, saved, swig_rc, cc_result,
                   err, ret>>

\* line 198
Return(b) ==
    /\ pc[b] = "ret"
    /\ ret' = [ret EXCEPT ![b] = module_path(b)]
    /\ pc' = [pc EXCEPT ![b] = "returned"]
    /\ UNCHANGED <<hostvars, ifacevars>>
    /\ UNCHANGED <<cwd, cwd0, dirs, fs, debug, calls, path, arg_folder,
                   src_state, output_folder, header_code, saved, swig_rc,
                   cc_result, err>>

-----------------------------------------------------------------------------
(* _create_swig_interface(), lines 117-133 *)

\* A header text is a sequence of pieces of text; "\n" ends a line.  The
\* pieces that begin with the characters '#include':
BeginsWithInclude == {"#include", "#include <vector>"}

TextPieces == {"#include", " ", "int f();", "\n"}

MaxTextLen == 4

RECURSIVE TextsUpTo(_)
TextsUpTo(n) ==
    IF n = 0 THEN {<<>>}
    ELSE LET shorter == TextsUpTo(n - 1)
         IN  shorter \cup {Append(t, x) : t \in {u \in shorter : Len(u) = n - 1},
                                          x \in TextPieces}

SnippetTexts == TextsUpTo(MaxTextLen)

\* index of the first "\n" of t, 0 when there is none
FirstNewline(t) ==
    LET at == {i \in 1..Len(t) : t[i] = "\n"}
    IN  IF at = {} THEN 0 ELSE CHOOSE i \in at : \A j \in at : i <= j

\* str.splitlines(): the lines without their line ends; a line end at the
\* very end of the text starts no further line
RECURSIVE splitlines(_)
splitlines(t) ==
    IF t = <<>> THEN <<>>
    ELSE LET k == FirstNewline(t)
         IN  IF k = 0 THEN <<t>>
             ELSE <<SubSeq(t, 1, k - 1)>> \o splitlines(SubSeq(t, k + 1, Len(t)))

\* line.startswith('#include'): no leading white space is skipped
startswith_include(line) == line # <<>> /\ line[1] \in BeginsWithInclude

\* '\n'.join(list)
RECURSIVE join_lines(_)
join_lines(l) ==
    IF l = <<>> THEN <<>>
    ELSE IF Len(l) = 1 THEN l[1]
    ELSE l[1] \o <<"\n">> \o join_lines(Tail(l))

\* SWIG_INTERFACE_TEMPLATE.format(module_name=..., include_directives=...,
\*                                function_signatures=...)
SnippetInterface(module_name, includes, signatures) ==
    [template |-> "SWIG_INTERFACE_TEMPLATE", module_name |-> module_name,
     include_directives |-> includes, function_signatures |-> signatures]

NoSnippet == [template |-> "", module_name |-> NoPath,
              include_directives |-> <<>>, function_signatures |-> <<>>]

\* lines 119-123: the module name, the header of the file and its lines
IfaceBegin ==
    /\ ipc = "start"
    /\ LET r == create_header_file(fs, ipath)
       IN  IF r.raised
             THEN /\ ipc' = "failed"
                  /\ ierr' = [r.exc EXCEPT !.line = 120]
                  /\ UNCHANGED hdr_lines
             ELSE /\ hdr_lines' = splitlines(r.text)
                  /\ ipc' = "loop"
                  /\ UNCHANGED ierr
    /\ pos' = 0
    /\ include_directives' = <<>>
    /\ function_signatures' = <<>>
    /\ UNCHANGED <<buildvars, hostvars>>
    /\ UNCHANGED <<ipath, swig_interface>>

\* variant: blank lines are skipped
IfaceLine_SkipsBlank ==
    /\ ipc = "loop"
    /\ pos < Len(hdr_lines)
    /\ LET line == hdr_lines[pos + 1]
       IN  IF line = <<>>
             THEN UNCHANGED <<include_directives, function_signatures>>
           ELSE IF startswith_include(line)
             THEN /\ include_directives' = Append(include_directives, line)
                  /\ UNCHANGED function_signatures
             ELSE /\ function_signatures' = Append(function_signatures, line)
                  /\ UNCHANGED include_directives
    /\ pos' = pos + 1
    /\ UNCHANGED <<buildvars, hostvars>>
    /\ UNCHANGED <<ipc, ipath, hdr_lines, swig_interface, ierr>>

\* lines 123-128: one turn of the loop, for the next line
IfaceLine ==
    /\ ipc = "loop"
    /\ pos < Len(hdr_lines)
    /\ LET line == hdr_lines[pos + 1]
       IN  IF startswith_include(line)
             THEN /\ include_directives' = Append(include_directives, line)
                  /\ UNCHANGED function_signatures
             ELSE /\ function_signatures' = Append(function_signatures, line)
                  /\ UNCHANGED include_directives
    /\ pos' = pos + 1
    /\ UNCHANGED <<buildvars, hostvars>>
    /\ UNCHANGED <<ipc, ipath, hdr_lines, swig_interface, ierr>>

\* lines 129-133: after the last line, the template is filled in
IfaceFormat ==
    /\ ipc = "loop"
    /\ pos = Len(hdr_lines)
    /\ swig_interface' = SnippetInterface(name(with_suffix(ipath, "")),
                                          join_lines(include_directives),
                                          join_lines(function_signatures))
    /\ ipc' = "done"
    /\ UNCHANGED <<buildvars, hostvars>>
    /\ UNCHANGED <<ipath, hdr_lines, pos, include_directives,
                   function_signatures, ierr>>

\* no call of _create_swig_interface() is under way
IfaceIdle ==
    /\ ipc = "idle"
    /\ ipath = NoPath
    /\ hdr_lines = <<>>
    /\ pos = 0
    /\ include_directives = <<>>
    /\ function_signatures = <<>>
    /\ swig_interface = NoSnippet
    /\ ierr = NoErr

-----------------------------------------------------------------------------
(* CppSwigCompiler.__init__(), lines 162-165 *)

Hosts == {"Linux", "Darwin", "Windows"}

\* {'Linux': GppInterface(), 'Darwin': ClangppInterface()}
Backends == [Linux |-> "GppInterface", Darwin |-> "ClangppInterface"]

\* variant: an unknown host falls back to the GNU backend
Construct_Fallback ==
    /\ ctor = "new"
    /\ ctor' = "ready"
    /\ cpp_compiler' = IF host \in DOMAIN Backends THEN Backends[host]
                                                   ELSE "GppInterface"
    /\ UNCHANGED <<buildvars, ifacevars>>
    /\ UNCHANGED host

\* the backend is looked up by platform.system(); the lookup raises
\* KeyError for a host that is not in the table
Construct ==
    /\ ctor = "new"
    /\ IF host \in DOMAIN Backends
         THEN ctor' = "ready" /\ cpp_compiler' = Backends[host]
         ELSE ctor' = "failed" /\ UNCHANGED cpp_compiler
    /\ UNCHANGED <<buildvars, ifacevars>>
    /\ UNCHANGED host

\* the compiler object exists, made on host h
Constructed(h) ==
    /\ host = h
    /\ ctor = "ready"
    /\ cpp_compiler = Backends[h]

\* a thread calls compile() on the object; calls follow one another
StartBuild(b) ==
    /\ ctor = "ready"
    /\ pc[b] = "idle"
    /\ \A o \in Builds \ {b} : pc[o] \in {"idle", "returned", "failed"}
    /\ pc' = [pc EXCEPT ![b] = "start"]
    /\ UNCHANGED <<hostvars, ifacevars>>
    /\ UNCHANGED <<cwd, cwd0, dirs, fs, debug, calls, path, arg_folder,
                   src_state, output_folder, header_code, saved, swig_rc,
                   cc_result, err, ret>>

-----------------------------------------------------------------------------
(* initial states *)

SourceNames == {"foo"}

SourceExts == {".cpp", ".hpp"}

SourcePaths ==
    {MkPath(d, s, e) : d \in {SourceDir, CallerDir}, s \in SourceNames,
                       e \in SourceExts}

\* the files on disk before a build of source p in state st
SourceFs(f, p, st, h) ==
    IF st = "missing" THEN f ELSE Put(f, p, SourceFile(st = "ok", h))

\* the locals of compile() before the call, and the process
TypeShape ==
    /\ pc \in [Builds -> {"idle", "start"}]
    /\ output_folder \in [Builds -> {None}]
    /\ header_code \in [Builds -> {<<>>}]
    /\ saved \in [Builds -> {None}]
    /\ swig_rc \in [Builds -> {-1}]
    /\ cc_result \in [Builds -> {NoResult}]
    /\ err \in [Builds -> {NoErr}]
    /\ ret \in [Builds -> {NoPath}]
    /\ calls = <<>>
    /\ cwd0 = StartDir
    /\ cwd = cwd0
    /\ debug \in BOOLEAN

\* one build call, build 1, of any source, with or without an output folder,
\* on a compiler object made on a host that has a backend
Init ==
    /\ TypeShape
    /\ IfaceIdle
    /\ \E h \in DOMAIN Backends : Constructed(h)
    /\ pc = [b \in Builds |-> IF b = 1 THEN "start" ELSE "idle"]
    /\ \E p \in SourcePaths, st \in {"ok", "malformed", "missing"},
          folder \in {None, CallerDir}, h \in HeaderTexts,
          caller_dir_exists \in BOOLEAN :
         /\ p.dir = CallerDir /\ st # "missing" => caller_dir_exists
         /\ path = [b \in Builds |-> IF b = 1 THEN p ELSE NoPath]
         /\ src_state = [b \in Builds |-> IF b = 1 THEN st ELSE "missing"]
         /\ arg_folder = [b \in Builds |-> IF b = 1 THEN folder ELSE None]
         /\ dirs = {SourceDir, StartDir}
                     \cup (IF caller_dir_exists THEN {CallerDir} ELSE {})
         /\ fs = SourceFs(EmptyFs, p, st, h)

\* two build calls in one process, on two threads: build 1 with the
\* caller's folder, build 2 without an output folder
InitConc ==
    /\ TypeShape
    /\ IfaceIdle
    /\ Constructed("Linux")
    /\ pc = [b \in Builds |-> "start"]
    /\ \E st \in {"ok", "malformed"}, h \in {<<>>, <<"int add(int a, int b);">>} :
         /\ path = [b \in Builds |->
                      MkPath(SourceDir, IF b = 1 THEN "foo" ELSE "bar", ".cpp")]
         /\ src_state = [b \in Builds |-> IF b = 1 THEN "ok" ELSE st]
         /\ arg_folder = [b \in Builds |-> IF b = 1 THEN CallerDir ELSE None]
         /\ dirs = {SourceDir, StartDir, CallerDir}
         /\ fs = SourceFs(SourceFs(EmptyFs, path[1], "ok", h), path[2], st, h)

Step(b) ==
    \/ AcquireDir(b)
    \/ CreateHeader(b)
    \/ WriteHeader(b)
    \/ CopySource(b)
    \/ WriteInterface(b)
    \/ EnterDir(b)
    \/ RunSwig(b)
    \/ RunCompiler(b)
    \/ LeaveDir(b)
    \/ Return(b)

Next == \E b \in Builds : Step(b)

Spec == Init /\ [][Next]_vars

SpecConc == InitConc /\ [][Next]_vars

\* one call of _create_swig_interface(), for any header text
InitIface ==
    /\ TypeShape
    /\ pc = [b \in Builds |-> "idle"]
    /\ path = [b \in Builds |-> NoPath]
    /\ src_state = [b \in Builds |-> "missing"]
    /\ arg_folder = [b \in Builds |-> None]
    /\ dirs = {SourceDir, StartDir}
    /\ Constructed("Linux")
    /\ ipc = "start"
    /\ hdr_lines = <<>>
    /\ pos = 0
    /\ include_directives = <<>>
    /\ function_signatures = <<>>
    /\ swig_interface = NoSnippet
    /\ ierr = NoErr
    /\ \E p \in {MkPath(SourceDir, "foo", ".cpp")}, st \in {"ok", "malformed"},
          h \in SnippetTexts :
         /\ ipath = p
         /\ fs = SourceFs(EmptyFs, p, st, h)

IfaceStep ==
    \/ IfaceBegin
    \/ IfaceLine
    \/ IfaceFormat

NextIface == IfaceStep

SpecIface == InitIface /\ [][NextIface]_vars

\* the process from before the compiler object is made: the object is
\* constructed on some host, then compile() is called on it twice, one call
\* after the other
InitHost ==
    /\ TypeShape
    /\ IfaceIdle
    /\ pc = [b \in Builds |-> "idle"]
    /\ host \in Hosts
    /\ ctor = "new"
    /\ cpp_compiler = NoBackend
    /\ \E folder \in {None, CallerDir} :
         /\ path = [b \in Builds |->
                      MkPath(SourceDir, IF b = 1 THEN "foo" ELSE "bar", ".cpp")]
         /\ src_state = [b \in Builds |-> "ok"]
         /\ arg_folder = [b \in Builds |-> IF b = 1 THEN folder ELSE None]
         /\ dirs = {SourceDir, StartDir, CallerDir}
         /\ fs = SourceFs(SourceFs(EmptyFs, path[1], "ok", <<>>),
                          path[2], "ok", <<>>)

NextHost ==
    \/ Construct
    \/ \E b \in Builds : StartBuild(b) \/ Step(b)

SpecHost == InitHost /\ [][NextHost]_vars

-----------------------------------------------------------------------------
(* vocabulary of the properties *)

Ended(b) == pc[b] \in {"returned", "failed"}

\* the build has raised, inside or outside the `with` block
Raised(b) == pc[b] \in {"exit_fail", "failed"}

\* between entering the staging directory and restoring the previous one
InSection(b) == pc[b] \in {"swig", "cc", "exit_ok", "exit_fail"}

CallsOf(b, tool) ==
    {i \in 1..Len(calls) : calls[i].build = b /\ calls[i].tool = tool}

GeneratorFailed(b) == swig_rc[b] \notin {-1, 0}

-----------------------------------------------------------------------------
C2_ToolsRunInStagingDir ==
    /\ \A i \in 1..Len(calls) : calls[i].cwd = output_folder[calls[i].build]
    /\ \A b \in Builds : pc[b] \in {"swig", "cc"} => cwd = output_folder[b]

C2_Witness ==
    /\ Len(calls) = 2
    /\ calls[1].tool = "swig" /\ calls[2].tool = "c++"
    /\ calls[2].cwd = output_folder[1]
    /\ calls[2].cwd # cwd0

\* C3: after a build call has ended, by return, by the generator's
\* RuntimeError or by a failed assertion on the compile or link status, the
\* working directory is the one before the call.
C3_WorkingDirRestored ==
    \A b \in Builds : Ended(b) => cwd = cwd0

C3_Witness ==
    \E b \in Builds :
        /\ pc[b] = "failed"
        /\ err[b].line \in {195, 196}
        /\ saved[b] = cwd0
        /\ output_folder[b] # cwd0
        /\ cwd = cwd0

\* C4: when the generator exits non-zero the build fails with the
\* generator-stage error (the RuntimeError of line 189) whose message holds
\* the source path, the whole header text and the staging directory path;
\* the compiler backend is not invoked and nothing is returned.
C4_GeneratorFailure ==
    \A b \in Builds :
        GeneratorFailed(b) =>
            /\ Raised(b)
            /\ err[b].type = "RuntimeError" /\ err[b].line = 189
            /\ path[b] \in err[b].paths
            /\ err[b].headers = {header_code[b]}
            /\ output_folder[b] \in err[b].folders
            /\ CallsOf(b, "c++") = {}
            /\ ret[b] = NoPath

C4_Witness ==
    \E b \in Builds :
        /\ pc[b] = "failed"
        /\ swig_rc[b] = 1
        /\ Len(header_code[b]) = 2
        /\ err[b].headers = {header_code[b]}

\* C5 (as stated): a build returns an artifact path only if the compile and
\* the link status are both 0; with compile status 0 and link status
\* non-zero it fails with a LinkError, with compile status non-zero it fails
\* with a CompileError.
C5_StatusesAreFatal ==
    \A b \in Builds :
        cc_result[b] # NoResult =>
            /\ pc[b] \in {"exit_ok", "ret", "returned"}
                 => cc_result[b].compile = 0 /\ cc_result[b].link = 0
            /\ cc_result[b].compile = 0 /\ cc_result[b].link # 0
                 => Raised(b) /\ err[b].type = "LinkError" /\ ret[b] = NoPath
            /\ cc_result[b].compile # 0
                 => Raised(b) /\ err[b].type = "CompileError" /\ ret[b] = NoPath

\* C6 (as stated): when the generator exits 0 and the wrapper file is not
\* in the staging directory, the build fails there: the missing wrapper is
\* not handed to the compiler backend and the build does not return.
C6_MissingWrapperIsFatal ==
    \A b \in Builds :
        swig_rc[b] = 0 /\ wrapper_path(b) \notin DOMAIN fs
            => CallsOf(b, "c++") = {} /\ pc[b] \notin {"exit_ok", "ret", "returned"}

\* C7 (as stated): with two builds on two threads, at most one build at a
\* time is between entering its staging directory and restoring the previous
\* directory, and every tool invocation runs in its own build's staging
\* directory.
C7_OneBuildInSection ==
    /\ Cardinality({b \in Builds : InSection(b)}) <= 1
    /\ \A i \in 1..Len(calls) : calls[i].cwd = output_folder[calls[i].build]

\* C8: with a caller-supplied output folder, no step of the build removes
\* that folder or a file in it, whether the build goes on, returns or fails.
C8_CallerFolderKept ==
    [][\A b \in Builds :
          arg_folder[b] # None /\ pc[b] # "idle" =>
              /\ arg_folder[b] \in dirs => arg_folder[b] \in dirs'
              /\ \A p \in DOMAIN fs :
                    p.dir = arg_folder[b] => p \in DOMAIN fs']_vars

C8_Witness ==
    \E b \in Builds :
        /\ arg_folder[b] = CallerDir
        /\ pc[b] = "failed"
        /\ err[b].line = 181
        /\ {hpp_path(b), cpp_path(b)} \subseteq DOMAIN fs
        /\ CallerDir \in dirs

C10_ParseFailureBeforeStaging ==
    \A b \in Builds :
        src_state[b] = "malformed" /\ pc[b] = "failed" =>
            /\ err[b].type = "SyntaxError"
            /\ TmpDir(b) \notin dirs
            /\ DOMAIN fs = {path[b]}
            /\ calls = <<>>

\* C10 (amended): a build whose source does not parse fails at the parse
\* step with a SyntaxError and goes no further: no file has been written
\* and neither the generator nor the compiler has been invoked.  When no
\* output folder was given, the build has by then already created the
\* staging directory, which stays behind, empty.
C10_ParseFailureWritesNothing ==
    \A b \in Builds :
        src_state[b] = "malformed" /\ pc[b] \notin {"idle", "start", "header"} =>
            /\ pc[b] = "failed"
            /\ err[b].type = "SyntaxError" /\ err[b].line = 111
            /\ DOMAIN fs = {path[b]} /\ fs[path[b]].kind = "source"
            /\ calls = <<>>
            /\ (TmpDir(b) \in dirs) = (arg_folder[b] = None)

C10_Witness ==
    \E b \in Builds :
        /\ src_state[b] = "malformed"
        /\ pc[b] = "failed"
        /\ err[b].type = "SyntaxError"
        /\ arg_folder[b] = None
        /\ TmpDir(b) \in dirs
        /\ DOMAIN fs = {path[b]}

-----------------------------------------------------------------------------
(* vocabulary of the properties of the include/declaration split *)

\* the elements of seq at the places in S, from place i on, in their order
RECURSIVE PickFrom(_, _, _)
PickFrom(seq, S, i) ==
    IF i > Len(seq) THEN <<>>
    ELSE (IF i \in S THEN <<seq[i]>> ELSE <<>>) \o PickFrom(seq, S, i + 1)

\* the line without the spaces it begins with
RECURSIVE lstrip(_)
lstrip(line) ==
    IF line # <<>> /\ line[1] = " " THEN lstrip(Tail(line)) ELSE line

\* the first characters of the line that are not spaces are '#include'
IsIncludeDirective(line) ==
    lstrip(line) # <<>> /\ lstrip(line)[1] \in BeginsWithInclude

IsDeclarationLine(line) == ~IsIncludeDirective(line)

\* C11: the lines the loop has taken are split into the include directives
\* and the declaration lines: every line is in exactly one of the two
\* sequences, each sequence keeps the lines in their order, none is dropped
\* or doubled; when the loop has ended, these are all lines of the header.
C11_SplitIsPartition ==
    ipc \in {"loop", "done"} =>
        /\ ipc = "done" => pos = Len(hdr_lines)
        /\ hdr_lines = splitlines(fs[ipath].text)
        /\ \E S \in SUBSET (1..pos) :
              /\ include_directives = PickFrom(SubSeq(hdr_lines, 1, pos), S, 1)
              /\ function_signatures =
                     PickFrom(SubSeq(hdr_lines, 1, pos), (1..pos) \ S, 1)

C11_Witness ==
    /\ ipc = "done"
    /\ Len(hdr_lines) = 3
    /\ Len(include_directives) = 1
    /\ Len(function_signatures) = 2
    /\ \E i \in 1..2 : function_signatures[i] = <<>>

\* C16 (as stated): a header line is among the include directives exactly
\* when its first non-space characters are '#include', also when spaces
\* come before the directive; every other line, blank lines too, is among
\* the declaration lines.
C16_IncludeAfterSpaces ==
    ipc = "done" =>
        /\ include_directives = SelectSeq(hdr_lines, IsIncludeDirective)
        /\ function_signatures = SelectSeq(hdr_lines, IsDeclarationLine)

-----------------------------------------------------------------------------
\* C12: a build of a source with stem S that has returned, in staging
\* directory D, has invoked the backend once, with the inputs
\* [D/<source file name>, D/S_wrap.cxx] and the output D/_S.so, and has
\* returned D/S.py.
C12_ArtifactNames ==
    \A b \in Builds :
        pc[b] = "returned" =>
            LET D == output_folder[b]
                S == path[b].stem
            IN  /\ Cardinality(CallsOf(b, "c++")) = 1
                /\ \A i \in CallsOf(b, "c++") :
                      /\ calls[i].inputs =
                           << [dir |-> D, pre |-> "", stem |-> S, post |-> "",
                               ext |-> path[b].ext],
                              [dir |-> D, pre |-> "", stem |-> S,
                               post |-> "_wrap", ext |-> ".cxx"] >>
                      /\ calls[i].output =
                           [dir |-> D, pre |-> "_", stem |-> S, post |-> "",
                            ext |-> ".so"]
                /\ ret[b] = [dir |-> D, pre |-> "", stem |-> S, post |-> "",
                             ext |-> ".py"]

C12_Witness ==
    \E b \in Builds :
        /\ pc[b] = "returned"
        /\ output_folder[b] = TmpDir(b)
        /\ cc_result[b] = [compile |-> 0, link |-> 0]
        /\ ret[b].ext = ".py"
        /\ so_path(b) \in DOMAIN fs

\* C13 (as stated): the original source file at the given path is never
\* modified, truncated or deleted by a build, whatever the staging
\* directory and the extension of the source.
C13_SourceUntouched ==
    \A b \in Builds :
        pc[b] # "idle" /\ src_state[b] # "missing" =>
            /\ path[b] \in DOMAIN fs
            /\ fs[path[b]].kind = "source"
            /\ fs[path[b]].ok = (src_state[b] = "ok")

\* C14: the generator is invoked only after the copy of the source, the
\* header file and the interface file are in the staging directory; the
\* backend only after the generator has ended with status 0; and a path is
\* returned only after the backend has returned.
C14_StagesInOrder ==
    \A b \in Builds :
        /\ pc[b] = "swig" \/ CallsOf(b, "swig") # {} =>
              /\ {cpp_path(b), hpp_path(b), swig_interface_path(b)}
                     \subseteq DOMAIN fs
              /\ fs[swig_interface_path(b)].kind = "interface"
        /\ \A i \in CallsOf(b, "c++") :
              /\ swig_rc[b] = 0
              /\ \E j \in CallsOf(b, "swig") : j < i
        /\ ret[b] # NoPath =>
              /\ CallsOf(b, "c++") # {}
              /\ cc_result[b] # NoResult

C14_Witness ==
    \E b \in Builds :
        /\ pc[b] = "returned"
        /\ ret[b] # NoPath
        /\ Len(calls) = 2
        /\ calls[1].tool = "swig" /\ calls[2].tool = "c++"
        /\ {cpp_path(b), hpp_path(b), swig_interface_path(b)} \subseteq DOMAIN fs

\* C15 (as stated): when the generator is about to be invoked, the header
\* the staged interface file names by its staging-relative path exists in
\* the working directory and holds exactly the generated header text, for
\* every source file name.
C15_HeaderReferenceResolves ==
    \A b \in Builds :
        pc[b] = "swig" =>
            LET iface == fs[swig_interface_path(b)]
                header == joinpath(cwd, iface.ref)
            IN  /\ iface.kind = "interface"
                /\ header \in DOMAIN fs
                /\ fs[header] = HeaderFile(header_code[b])

\* C17: in one build call the generator is invoked at most once and the
\* backend at most once, whatever their statuses, and the header pipeline
\* is run at most once: its position is entered from the start of the call
\* only and left by its one run.
C17_NothingRetried ==
    /\ [](\A b \in Builds :
             /\ Cardinality(CallsOf(b, "swig")) <= 1
             /\ Cardinality(CallsOf(b, "c++")) <= 1)
    /\ [][\A b \in Builds :
             /\ pc'[b] = "start" => pc[b] = "start"
             /\ pc'[b] = "header" => pc[b] \in {"start", "header"}
             /\ pc[b] = "header" /\ (err'[b] # err[b]
                                      \/ header_code'[b] # header_code[b]
                                      \/ pc'[b] # pc[b])
                   => pc'[b] \notin {"start", "header"}]_vars

C17_Witness ==
    \E b \in Builds :
        /\ pc[b] = "failed"
        /\ err[b].line = 196
        /\ Cardinality(CallsOf(b, "swig")) = 1
        /\ Cardinality(CallsOf(b, "c++")) = 1

\* C18: the backend is chosen when the object is constructed, from the
\* host: Linux gives the GNU backend (GppInterface), Darwin the LLVM
\* backend (ClangppInterface); every build of the object runs that backend;
\* on any other host the construction fails and no build is ever started.
C18_BackendFromHost ==
    LET chosen == IF host = "Linux" THEN "GppInterface" ELSE "ClangppInterface"
    IN  /\ ctor = "ready" => host \in {"Linux", "Darwin"} /\ cpp_compiler = chosen
        /\ ctor # "ready" =>
              /\ cpp_compiler = NoBackend
              /\ calls = <<>>
              /\ \A b \in Builds : pc[b] = "idle"
        /\ host \notin {"Linux", "Darwin"} => ctor \in {"new", "failed"}
        /\ \A i \in 1..Len(calls) :
              calls[i].tool = "c++" => calls[i].backend = chosen

C18_Witness ==
    /\ host = "Darwin"
    /\ \E i, j \in 1..Len(calls) :
          /\ calls[i].build = 1 /\ calls[j].build = 2
          /\ calls[i].tool = "c++" /\ calls[j].tool = "c++"
          /\ calls[i].backend = "ClangppInterface"
          /\ calls[j].backend = "ClangppInterface"

=============================================================================
